---------------------------- MODULE Spec2Model ----------------------------
(***************************************************************************)
(* State-machine model of nfl_sdk/base.py: the URL builder (generate_url), *)
(* the HTTP call wrapper (make_call), the three GitHub helpers             *)
(* (introduce_repository, get_file_path_array, prepare_cross_year_data)    *)
(* and the script entry point that chains them.                            *)
(*                                                                         *)
(* Python strings that the code takes apart (URL components, file names,   *)
(* years, extensions) are sequences of one-character strings.  A Python    *)
(* value whose type the code inspects at run time is a one-field record    *)
(* named after its type: [none |-> TRUE], [str |-> s], [list |-> l],       *)
(* [dict |-> d], [int |-> n].                                              *)
(***************************************************************************)
EXTENDS Integers, Sequences, FiniteSets, TLC

VARIABLES
    pc,               \* control point of the running call ("ready" .. "done")
    fn,               \* function invoked by the caller ("" before the call)
    args,             \* its arguments
    main_pc,          \* position of the __main__ block ("off" when not run)
    http,             \* HTTP exchanges performed by requests.request, oldest first
    response,         \* repo_response of the running helper
    response_content, \* loads(repo_response.content)
    parsed,           \* functions that called loads(...), oldest first
    file_extensions,  \* the normalised extension filter
    idx,              \* number of loop iterations completed
    filtered_files,   \* get_file_path_array's accumulator
    list_of_df,       \* prepare_cross_year_data's accumulator
    fetched,          \* URLs handed to read_parquet, oldest first
    logs,             \* logger.info records, oldest first
    year_files,       \* __main__'s year_files
    calls,            \* functions entered by __main__, oldest first
    outcome           \* how the call (or the run) ended

vars == <<pc, fn, args, main_pc, http, response, response_content, parsed,
          file_extensions, idx, filtered_files, list_of_df, fetched, logs,
          year_files, calls, outcome>>

-----------------------------------------------------------------------------
(* Bounds of the model *)

MaxListing == 3

MaxFiles == 2

-----------------------------------------------------------------------------
(* Python values *)

None == [none |-> TRUE]

PyStr(s) == [str |-> s]

PyList(l) == [list |-> l]

PyDict(d) == [dict |-> d]

PyInt(n) == [int |-> n]

IsNone(v) == "none" \in DOMAIN v

IsStr(v) == "str" \in DOMAIN v

IsList(v) == "list" \in DOMAIN v

IsDict(v) == "dict" \in DOMAIN v

IsInt(v) == "int" \in DOMAIN v

\* Python truthiness of None, str, list and dict values
Truthy(v) ==
    CASE IsNone(v) -> FALSE
      [] IsStr(v) -> v.str # <<>>
      [] IsList(v) -> v.list # <<>>
      [] IsDict(v) -> v.dict # <<>>
      [] IsInt(v) -> v.int # 0

\* the Python expression  a or b
Or(a, b) == IF Truthy(a) THEN a ELSE b

Digit(d) == <<"0", "1", "2", "3", "4", "5", "6", "7", "8", "9">>[d + 1]

RECURSIVE StrNat(_)
StrNat(n) == IF n < 10 THEN <<Digit(n)>> ELSE StrNat(n \div 10) \o <<Digit(n % 10)>>

\* str(v) for None, str and int values
str(v) ==
    CASE IsNone(v) -> <<"N", "o", "n", "e">>
      [] IsStr(v) -> v.str
      [] IsInt(v) -> IF v.int < 0 THEN <<"-">> \o StrNat(-v.int) ELSE StrNat(v.int)

Digits == {"0", "1", "2", "3", "4", "5", "6", "7", "8", "9"}

DigitValue(c) == CHOOSE d \in 0..9 : Digit(d) = c

RECURSIVE NatOf(_)
NatOf(s) == IF s = <<>> THEN 0 ELSE 10 * NatOf(SubSeq(s, 1, Len(s) - 1)) + DigitValue(s[Len(s)])

\* whether int(v) succeeds: an int, or a string of decimal digits
IntOk(v) == IsInt(v) \/ (IsStr(v) /\ v.str # <<>> /\ \A i \in 1..Len(v.str) : v.str[i] \in Digits)

\* int(v) where it succeeds
int(v) == IF IsInt(v) THEN v.int ELSE NatOf(v.str)

\* the Python expression  needle in hay  on strings
Contains(hay, needle) ==
    \E i \in 0..(Len(hay) - Len(needle)) : SubSeq(hay, i + 1, i + Len(needle)) = needle

\* sep.join(parts)
RECURSIVE Join(_, _)
Join(parts, sep) ==
    IF parts = <<>> THEN <<>>
    ELSE IF Len(parts) = 1 THEN parts[1]
    ELSE parts[1] \o sep \o Join(Tail(parts), sep)

-----------------------------------------------------------------------------
(* urllib.parse as used by generate_url *)

\* quote_plus of one character, over the characters the model uses
QuotePlusChar(c) ==
    CASE c = " " -> <<"+">>
      [] c = "&" -> <<"%", "2", "6">>
      [] c = "=" -> <<"%", "3", "D">>
      [] c = "/" -> <<"%", "2", "F">>
      [] c = "#" -> <<"%", "2", "3">>
      [] c = "?" -> <<"%", "3", "F">>
      [] OTHER -> <<c>>

RECURSIVE QuotePlus(_)
QuotePlus(s) == IF s = <<>> THEN <<>> ELSE QuotePlusChar(Head(s)) \o QuotePlus(Tail(s))

\* urlencode of a mapping, given as its items in insertion order
RECURSIVE urlencode(_)
urlencode(d) ==
    IF d = <<>> THEN <<>>
    ELSE LET item == QuotePlus(d[1][1]) \o <<"=">> \o QuotePlus(d[1][2])
         IN  IF Len(d) = 1 THEN item ELSE item \o <<"&">> \o urlencode(Tail(d))

S_https == <<"h", "t", "t", "p", "s">>

S_http == <<"h", "t", "t", "p">>

S_mailto == <<"m", "a", "i", "l", "t", "o">>

\* the schemes of urllib.parse.uses_netloc among those the model passes
uses_netloc == {<<>>, S_http, S_https}

Prefix(s, n) == SubSeq(s, 1, IF Len(s) < n THEN Len(s) ELSE n)

urlunsplit(scheme, netloc, url, query, fragment) ==
    LET url1 == IF netloc # <<>> \/ (scheme # <<>> /\ scheme \in uses_netloc
                                     /\ Prefix(url, 2) # <<"/", "/">>)
                THEN <<"/", "/">> \o netloc
                     \o (IF url # <<>> /\ Prefix(url, 1) # <<"/">> THEN <<"/">> \o url ELSE url)
                ELSE url
        url2 == IF scheme # <<>> THEN scheme \o <<":">> \o url1 ELSE url1
        url3 == IF query # <<>> THEN url2 \o <<"?">> \o query ELSE url2
    IN  IF fragment # <<>> THEN url3 \o <<"#">> \o fragment ELSE url3

urlunparse(scheme, netloc, url, params, query, fragment) ==
    urlunsplit(scheme, netloc, IF params # <<>> THEN url \o <<";">> \o params ELSE url,
               query, fragment)

-----------------------------------------------------------------------------
(* generate_url *)

\* the comprehension without  or ""
NonNoneArgument_StrOnly(value) == str(value)

\* str(value or "") of the non_none_arguments comprehension
NonNoneArgument(value) == str(Or(value, PyStr(<<>>)))

generate_url(netloc, scheme, path, query, fragment) ==
    LET path1 == IF IsList(path) THEN PyStr(Join(path.list, <<"/">>)) ELSE path
        query1 == IF IsDict(query) THEN PyStr(urlencode(query.dict)) ELSE query
    IN  urlunparse(NonNoneArgument(scheme), NonNoneArgument(netloc),
                   NonNoneArgument(path1), NonNoneArgument(None),
                   NonNoneArgument(query1), NonNoneArgument(fragment))


-----------------------------------------------------------------------------
(* make_call *)

S_api_github_com == <<"a", "p", "i", ".", "g", "i", "t", "h", "u", "b", ".", "c", "o", "m">>

S_x_io == <<"x", ".", "i", "o">>

S_https_x_io_f == <<"h", "t", "t", "p", "s", ":", "/", "/", "x", ".", "i", "o", "/", "f">>

\* an HTTP exchange that ended in a transport-level exception of requests.request
ConnectionError == [raised |-> "ConnectionError"]

IsResponse(r) == "status" \in DOMAIN r

\* url_to_call with the components taking precedence over url
url_to_call_ComponentsFirst(a) ==
    IF ~IsNone(a.netloc)
    THEN generate_url(a.netloc, a.scheme, a.path, a.query, a.fragment)
    ELSE a.url.str

\* url_to_call of make_call, for a call that does not raise
url_to_call(a) ==
    IF ~IsNone(a.url) THEN a.url.str
    ELSE generate_url(a.netloc, a.scheme, a.path, a.query, a.fragment)

\* make_call without the check of its first two lines
make_call_NoGuard(a, r) ==
    LET request == [method |-> a.method, url |-> url_to_call(a), params |-> a.params,
                    headers |-> a.headers, data |-> a.data]
    IN  [exc |-> IF IsResponse(r) THEN "" ELSE r.raised,
         exchanges |-> <<[request |-> request, response |-> r]>>,
         response |-> IF IsResponse(r) THEN r ELSE None]

\* make_call(**a) when the transport answers r: the exception raised ("" for none),
\* the exchanges performed and the response returned
make_call(a, r) ==
    IF IsNone(a.url) /\ IsNone(a.netloc)
    THEN [exc |-> "ValueError", exchanges |-> <<>>, response |-> None]
    ELSE LET request == [method |-> a.method, url |-> url_to_call(a), params |-> a.params,
                         headers |-> a.headers, data |-> a.data]
         IN  [exc |-> IF IsResponse(r) THEN "" ELSE r.raised,
              exchanges |-> <<[request |-> request, response |-> r]>>,
              response |-> IF IsResponse(r) THEN r ELSE None]

\* make_call's arguments with every keyword at its default
MakeCallDefaults(method) ==
    [method |-> method, url |-> None, netloc |-> None, params |-> None, data |-> None, headers |-> None,
     scheme |-> PyStr(S_https), path |-> None, query |-> None, fragment |-> None]

-----------------------------------------------------------------------------
(* The GitHub endpoints and what they may answer *)

branch_owner == <<"g", "u", "g", "a", "3", "1", "b", "b">>

repository_name == <<"n", "f", "l", "f", "a", "s", "t", "R", "-", "d", "a", "t", "a">>

S_repos == <<"r", "e", "p", "o", "s">>

S_branches == <<"b", "r", "a", "n", "c", "h", "e", "s">>

S_contents == <<"c", "o", "n", "t", "e", "n", "t", "s">>

S_data == <<"d", "a", "t", "a">>

S_master == <<"m", "a", "s", "t", "e", "r">>

S_dev == <<"d", "e", "v">>

github_recommended_header == [Accept |-> "application/vnd.github.v3+json"]

Branches == {S_master, S_dev}

\* the keyword arguments of introduce_repository's make_call
IntroduceCall(branch) ==
    [MakeCallDefaults("get") EXCEPT
        !.netloc = PyStr(S_api_github_com),
        !.path = PyList(<<S_repos, branch_owner, repository_name, S_branches, branch>>),
        !.headers = github_recommended_header]

\* the keyword arguments of get_file_path_array's make_call
ListingCall(branch) ==
    [MakeCallDefaults("get") EXCEPT
        !.netloc = PyStr(S_api_github_com),
        !.path = PyList(<<S_repos, branch_owner, repository_name, S_contents, S_data>>),
        !.params = [ref |-> branch],
        !.headers = github_recommended_header]

N_pbp_2019_parquet == <<"p", "b", "p", "_", "2", "0", "1", "9", ".", "p", "a", "r", "q", "u", "e", "t">>

N_pbp_2020_parquet == <<"p", "b", "p", "_", "2", "0", "2", "0", ".", "p", "a", "r", "q", "u", "e", "t">>

N_readme_2020_md == <<"r", "e", "a", "d", "m", "e", "_", "2", "0", "2", "0", ".", "m", "d">>

N_data_2020_csv_gz == <<"d", "a", "t", "a", "_", "2", "0", "2", "0", ".", "c", "s", "v", ".", "g", "z">>

N_pbp_2009_parquet == <<"p", "b", "p", "_", "2", "0", "0", "9", ".", "p", "a", "r", "q", "u", "e", "t">>

\* entries of a Contents API listing
Entries ==
    { [name |-> N_pbp_2019_parquet, download_url |-> "raw/pbp_2019.parquet"],
      [name |-> N_pbp_2020_parquet, download_url |-> "raw/pbp_2020.parquet"],
      [name |-> N_readme_2020_md, download_url |-> "raw/readme_2020.md"],
      [name |-> N_data_2020_csv_gz, download_url |-> "raw/data_2020.csv.gz"],
      [name |-> N_pbp_2009_parquet, download_url |-> "raw/pbp_2009.parquet"] }

SeqsUpTo(S, n) == UNION {[1..k -> S] : k \in 0..n}

Listings == SeqsUpTo(Entries, MaxListing)

\* response bodies: bytes that are not JSON, a JSON error object, branch metadata
\* (with a commit date that strptime accepts or rejects), a Contents listing
NotJson == [json |-> FALSE]

ErrorObject == [json |-> TRUE, object |-> "message"]

BranchBody(date_ok) == [json |-> TRUE, commit_date_ok |-> date_ok]

ListingBody(l) == [json |-> TRUE, listing |-> l]

Bodies == {NotJson, ErrorObject, BranchBody(TRUE), BranchBody(FALSE)} \cup {ListingBody(l) : l \in Listings}

ErrorBodies ==
    {NotJson, ErrorObject, BranchBody(TRUE),
     ListingBody(<<[name |-> N_pbp_2020_parquet, download_url |-> "raw/pbp_2020.parquet"]>>)}

Statuses == {200, 201, 404}

Responses ==
    {[status |-> 200, body |-> b] : b \in Bodies}
    \cup {[status |-> s, body |-> b] : s \in Statuses \ {200}, b \in ErrorBodies}

Transport == Responses \cup {ConnectionError}

-----------------------------------------------------------------------------
(* pathlib as used by get_file_path_array *)

\* str(Path(name)) for a name without a path separator
PathStr(name) == IF name = <<>> THEN <<".">> ELSE name

\* name.lstrip('.')
RECURSIVE LStripDots(_)
LStripDots(s) == IF s # <<>> /\ Head(s) = "." THEN LStripDots(Tail(s)) ELSE s

\* name.split('.')
RECURSIVE SplitDots(_)
SplitDots(s) ==
    IF \A i \in 1..Len(s) : s[i] # "." THEN <<s>>
    ELSE LET k == CHOOSE i \in 1..Len(s) : s[i] = "." /\ \A j \in 1..(i - 1) : s[j] # "."
         IN  <<SubSeq(s, 1, k - 1)>> \o SplitDots(SubSeq(s, k + 1, Len(s)))

\* Path(name).suffixes
suffixes(name) ==
    IF name # <<>> /\ name[Len(name)] = "." THEN <<>>
    ELSE LET parts == SplitDots(LStripDots(name))
         IN  [i \in 1..(Len(parts) - 1) |-> <<".">> \o parts[i + 1]]

-----------------------------------------------------------------------------
(* get_file_path_array: the filter of one listing entry *)

S_parquet == <<".", "p", "a", "r", "q", "u", "e", "t">>

S_csv == <<".", "c", "s", "v">>

S_gz == <<".", "g", "z">>

S_md == <<".", "m", "d">>

\* any(str(year) in str(file_path) for year in years)
year_match(name, years) == \E i \in 1..Len(years) : Contains(PathStr(name), str(years[i]))

\* the loop's condition with the extension filter matched as an ending of the
\* suffix chain
EntrySelected_EndsWith(file_dict, years, extensions) ==
    LET chain == suffixes(file_dict.name)
    IN  /\ Len(extensions) <= Len(chain)
        /\ SubSeq(chain, Len(chain) - Len(extensions) + 1, Len(chain)) = extensions
        /\ year_match(file_dict.name, years)

\* the condition under which the loop appends file_dict["download_url"]
EntrySelected(file_dict, years, extensions) ==
    suffixes(file_dict.name) = extensions /\ year_match(file_dict.name, years)

\* the isinstance(file_extensions, str) normalisation
NormalisedExtensions(extensions) == IF IsStr(extensions) THEN <<extensions.str>> ELSE extensions.list

Min(S) == CHOOSE x \in S : \A y \in S : x <= y

Max(S) == CHOOSE x \in S : \A y \in S : x >= y

\* whether the min/max log statement raises: min() of an empty list, or int() of a
\* string that is not a number
LogStatementRaises(years) == years = <<>> \/ \E i \in 1..Len(years) : ~IntOk(years[i])

-----------------------------------------------------------------------------
(* pandas as used by prepare_cross_year_data *)

\* a DataFrame: its columns in order and its rows in index order, each row a
\* function from column to cell
NaN == "NaN"

T_ab1 == [columns |-> <<"a", "b">>, rows |-> <<[a |-> "a1", b |-> "b1"]>>]

T_ab2 == [columns |-> <<"a", "b">>, rows |-> <<[a |-> "a2", b |-> "b2"], [a |-> "a3", b |-> "b3"]>>]

T_ac1 == [columns |-> <<"a", "c">>, rows |-> <<[a |-> "a4", c |-> "c4"]>>]

T_b0 == [columns |-> <<"b">>, rows |-> <<>>]

\* what read_parquet may produce for a URL: a table, or an exception
Tables == {T_ab1, T_ab2, T_ac1, T_b0}

ReadFailure == [raised |-> "read_parquet error"]

IsTable(t) == "columns" \in DOMAIN t

Range(s) == {s[i] : i \in 1..Len(s)}

\* s followed by the elements of t that s lacks, in t's order
RECURSIVE AppendNew(_, _)
AppendNew(s, t) ==
    IF t = <<>> THEN s
    ELSE AppendNew(IF Head(t) \in Range(s) THEN s ELSE Append(s, Head(t)), Tail(t))

\* the union of the frames' columns in order of first appearance (join="outer", sort=False)
RECURSIVE UnionColumns(_)
UnionColumns(objs) ==
    IF objs = <<>> THEN <<>>
    ELSE AppendNew(UnionColumns(SubSeq(objs, 1, Len(objs) - 1)), objs[Len(objs)].columns)

\* a row reindexed to columns cols: cells of absent columns are NaN
Reindex(row, cols) == [c \in Range(cols) |-> IF c \in DOMAIN row THEN row[c] ELSE NaN]

RECURSIVE ConcatRows(_, _)
ConcatRows(objs, cols) ==
    IF objs = <<>> THEN <<>>
    ELSE [i \in 1..Len(objs[1].rows) |-> Reindex(objs[1].rows[i], cols)]
         \o ConcatRows(Tail(objs), cols)

\* concat with join="inner": only the columns every frame has
concat_InnerJoin(objs) ==
    IF objs = <<>> THEN [exc |-> "ValueError", frame |-> None]
    ELSE LET cols == SelectSeq(UnionColumns(objs),
                               LAMBDA c : \A i \in 1..Len(objs) : c \in Range(objs[i].columns))
         IN  [exc |-> "", frame |-> [columns |-> cols, rows |-> ConcatRows(objs, cols)]]

\* concat(objs, ignore_index=True): the exception raised ("" for none) and the frame
concat(objs) ==
    IF objs = <<>> THEN [exc |-> "ValueError", frame |-> None]
    ELSE [exc |-> "",
          frame |-> [columns |-> UnionColumns(objs),
                     rows |-> ConcatRows(objs, UnionColumns(objs))]]

-----------------------------------------------------------------------------
(* Arguments the caller may pass *)

S_a_b == <<"a", "/", "b">>

S_slash_a == <<"/", "a">>

S_a == <<"a">>

S_b == <<"b">>

S_q_1 == <<"q", "=", "1">>

S_ref == <<"r", "e", "f">>

S_k == <<"k">>

S_a_amp_b == <<"a", "&", "b">>

S_f == <<"f">>

NetlocArgs == {PyStr(S_api_github_com), PyStr(S_x_io), PyStr(<<>>)}

SchemeArgs == {PyStr(S_https), PyStr(S_http), PyStr(S_mailto), None}

PathArgs == {None, PyStr(S_a_b), PyStr(S_slash_a), PyStr(<<>>), PyList(<<S_a, S_b>>), PyList(<<>>)}

QueryArgs ==
    {None, PyStr(S_q_1), PyDict(<<>>), PyDict(<< <<S_ref, S_master>> >>),
     PyDict(<< <<S_ref, S_master>>, <<S_k, S_a_amp_b>> >>)}

FragmentArgs == {None, PyStr(S_f), PyStr(<<>>)}

UrlArgs == {None, PyStr(S_https_x_io_f), PyStr(<<>>)}

S_2020 == <<"2", "0", "2", "0">>

S_pbp == <<"p", "b", "p">>

YearsArgs ==
    { <<>>, <<PyInt(2020)>>, <<PyStr(S_2020)>>, <<PyInt(2019), PyInt(2020)>>,
      <<PyInt(2018)>>, <<PyInt(20)>>, <<PyStr(S_pbp)>> }

ExtensionsArgs ==
    { PyStr(S_parquet), PyList(<<S_parquet>>), PyStr(S_md), PyList(<<S_csv, S_gz>>),
      PyList(<<S_gz>>), PyList(<<>>) }

FileUrls == {e.download_url : e \in Entries}

FilePathsArgs == SeqsUpTo(FileUrls, MaxFiles)

\* the parameters hardcoded in the __main__ block
start_year == 2010

end_year == 2020

main_branch == S_master

\* range(start_year, end_year + 1, 1)
main_years == [i \in 1..(end_year + 1 - start_year) |-> PyInt(start_year + i - 1)]

-----------------------------------------------------------------------------
(* The state machine *)

Init ==
    /\ pc = "ready"
    /\ fn = ""
    /\ args = None
    /\ main_pc = "off"
    /\ http = <<>>
    /\ response = None
    /\ response_content = None
    /\ parsed = <<>>
    /\ file_extensions = <<>>
    /\ idx = 0
    /\ filtered_files = <<>>
    /\ list_of_df = <<>>
    /\ fetched = <<>>
    /\ logs = <<>>
    /\ year_files = <<>>
    /\ calls = <<>>
    /\ outcome = [kind |-> "none"]

Returned(value) == [kind |-> "returned", value |-> value]

Raised(exc) == [kind |-> "raised", exc |-> exc]

\* the exception propagates to the caller (and, from __main__, ends the process)
Raise(exc) ==
    /\ pc' = "done"
    /\ outcome' = Raised(exc)

\* a direct call of generate_url
CallGenerateUrl ==
    /\ pc = "ready"
    /\ \E netloc \in NetlocArgs, scheme \in SchemeArgs, path \in PathArgs,
          query \in QueryArgs, fragment \in FragmentArgs :
          /\ fn' = "generate_url"
          /\ args' = [netloc |-> netloc, scheme |-> scheme, path |-> path,
                      query |-> query, fragment |-> fragment]
          /\ outcome' = Returned(generate_url(netloc, scheme, path, query, fragment))
    /\ pc' = "done"
    /\ UNCHANGED <<main_pc, http, response, response_content, parsed, file_extensions,
                   idx, filtered_files, list_of_df, fetched, logs, year_files, calls>>

\* a direct call of make_call
CallMakeCall ==
    /\ pc = "ready"
    /\ \E method \in {"get", "post"}, url \in UrlArgs,
          netloc \in {None, PyStr(S_api_github_com)}, scheme \in {PyStr(S_https), None},
          path \in {None, PyStr(S_a_b), PyList(<<S_a, S_b>>)},
          query \in {None, PyDict(<< <<S_ref, S_master>> >>)},
          fragment \in {None, PyStr(S_f)}, params \in {None, [ref |-> S_master]},
          headers \in {None, github_recommended_header},
          r \in {[status |-> 200, body |-> NotJson], [status |-> 404, body |-> ErrorObject],
                 ConnectionError} :
          LET a == [method |-> method, url |-> url, netloc |-> netloc, params |-> params,
                    data |-> None, headers |-> headers, scheme |-> scheme, path |-> path,
                    query |-> query, fragment |-> fragment]
              m == make_call(a, r)
          IN  /\ fn' = "make_call"
              /\ args' = a
              /\ http' = http \o m.exchanges
              /\ outcome' = IF m.exc # "" THEN Raised(m.exc) ELSE Returned(m.response)
    /\ pc' = "done"
    /\ UNCHANGED <<main_pc, response, response_content, parsed, file_extensions, idx,
                   filtered_files, list_of_df, fetched, logs, year_files, calls>>

-----------------------------------------------------------------------------
(* introduce_repository *)

\* the assertion accepting every 2xx status
StatusAsserted_AnySuccess(repo_response) ==
    repo_response.status >= 200 /\ repo_response.status < 300

\* the condition of  assert repo_response.status_code == 200
StatusAsserted(repo_response) == repo_response.status = 200

\* the make_call of introduce_repository, answered by r
IntroRequest(branch, r) ==
    LET m == make_call(IntroduceCall(branch), r)
    IN  /\ fn' = "introduce_repository"
        /\ args' = [branch |-> branch]
        /\ http' = http \o m.exchanges
        /\ response_content' = None
        /\ IF m.exc # ""
           THEN Raise(m.exc) /\ response' = None
           ELSE pc' = "intro_assert" /\ response' = m.response /\ outcome' = outcome

\* a direct call of introduce_repository
CallIntroduceRepository ==
    /\ pc = "ready"
    /\ \E branch \in Branches, r \in Transport : IntroRequest(branch, r)
    /\ UNCHANGED <<main_pc, parsed, file_extensions, idx, filtered_files, list_of_df,
                   fetched, logs, year_files, calls>>

\* introduce_repository without its assertion
IntroAssert_Skipped ==
    /\ pc = "intro_assert"
    /\ pc' = "intro_parse"
    /\ UNCHANGED <<outcome, fn, args, main_pc, http, response, response_content, parsed,
                   file_extensions, idx, filtered_files, list_of_df, fetched, logs,
                   year_files, calls>>

IntroAssert ==
    /\ pc = "intro_assert"
    /\ IF StatusAsserted(response)
       THEN pc' = "intro_parse" /\ outcome' = outcome
       ELSE Raise("AssertionError")
    /\ UNCHANGED <<fn, args, main_pc, http, response, response_content, parsed,
                   file_extensions, idx, filtered_files, list_of_df, fetched, logs,
                   year_files, calls>>

\* loads(...), the lookup of commit.commit.author.date and its strptime
IntroParse ==
    /\ pc = "intro_parse"
    /\ parsed' = Append(parsed, fn)
    /\ IF ~response.body.json
       THEN Raise("JSONDecodeError") /\ response_content' = response_content
       ELSE /\ response_content' = response.body
            /\ IF "listing" \in DOMAIN response.body THEN Raise("TypeError")
               ELSE IF "commit_date_ok" \notin DOMAIN response.body THEN Raise("KeyError")
               ELSE IF ~response.body.commit_date_ok THEN Raise("ValueError")
               ELSE pc' = "intro_log" /\ outcome' = outcome
    /\ UNCHANGED <<fn, args, main_pc, http, response, file_extensions, idx, filtered_files,
                   list_of_df, fetched, logs, year_files, calls>>

\* the two logger.info calls, then the return
IntroLog ==
    /\ pc = "intro_log"
    /\ logs' = logs \o <<[fn |-> fn, msg |-> "Loading data from"],
                         [fn |-> fn, msg |-> "Last commit"]>>
    /\ IF main_pc = "off"
       THEN pc' = "done" /\ outcome' = Returned(None)
       ELSE pc' = "main_list" /\ outcome' = outcome
    /\ UNCHANGED <<fn, args, main_pc, http, response, response_content, parsed,
                   file_extensions, idx, filtered_files, list_of_df, fetched, year_files,
                   calls>>

-----------------------------------------------------------------------------
(* get_file_path_array *)

\* the make_call of get_file_path_array, answered by r
ListRequest(years, branch, extensions, r) ==
    LET m == make_call(ListingCall(branch), r)
    IN  /\ fn' = "get_file_path_array"
        /\ args' = [years |-> years, branch |-> branch, file_extensions |-> extensions]
        /\ http' = http \o m.exchanges
        /\ response_content' = None
        /\ IF m.exc # ""
           THEN Raise(m.exc) /\ response' = None
           ELSE pc' = "list_assert" /\ response' = m.response /\ outcome' = outcome

\* a direct call of get_file_path_array
CallGetFilePathArray ==
    /\ pc = "ready"
    /\ \E years \in YearsArgs, branch \in Branches, extensions \in ExtensionsArgs,
          r \in Transport : ListRequest(years, branch, extensions, r)
    /\ UNCHANGED <<main_pc, parsed, file_extensions, idx, filtered_files, list_of_df,
                   fetched, logs, year_files, calls>>

ListAssert ==
    /\ pc = "list_assert"
    /\ IF StatusAsserted(response)
       THEN pc' = "list_parse" /\ outcome' = outcome
       ELSE Raise("AssertionError")
    /\ UNCHANGED <<fn, args, main_pc, http, response, response_content, parsed,
                   file_extensions, idx, filtered_files, list_of_df, fetched, logs,
                   year_files, calls>>

\* loads(...), the normalisation of file_extensions, filtered_files = list()
ListParse ==
    /\ pc = "list_parse"
    /\ parsed' = Append(parsed, fn)
    /\ IF ~response.body.json
       THEN /\ Raise("JSONDecodeError")
            /\ UNCHANGED <<response_content, file_extensions, filtered_files, idx>>
       ELSE /\ response_content' = response.body
            /\ file_extensions' = NormalisedExtensions(args.file_extensions)
            /\ filtered_files' = <<>>
            /\ idx' = 0
            /\ pc' = "list_filter"
            /\ outcome' = outcome
    /\ UNCHANGED <<fn, args, main_pc, http, response, list_of_df, fetched, logs,
                   year_files, calls>>

\* one iteration of  for file_dict in response_content
ListFilter ==
    /\ pc = "list_filter"
    /\ IF "listing" \notin DOMAIN response_content
       THEN Raise("TypeError") /\ UNCHANGED <<filtered_files, idx>>
       ELSE /\ idx < Len(response_content.listing)
            /\ LET file_dict == response_content.listing[idx + 1]
               IN  filtered_files' =
                       IF EntrySelected(file_dict, args.years, file_extensions)
                       THEN Append(filtered_files, file_dict.download_url)
                       ELSE filtered_files
            /\ idx' = idx + 1
            /\ UNCHANGED <<pc, outcome>>
    /\ UNCHANGED <<fn, args, main_pc, http, response, response_content, parsed,
                   file_extensions, list_of_df, fetched, logs, year_files, calls>>

\* the log statement without min and max: the count only, then the return
ListLog_CountOnly ==
    /\ pc = "list_filter"
    /\ "listing" \in DOMAIN response_content
    /\ idx = Len(response_content.listing)
    /\ logs' = Append(logs, [fn |-> fn, msg |-> "years of data returned",
                             count |-> Len(filtered_files)])
    /\ IF main_pc = "off"
       THEN pc' = "done" /\ outcome' = Returned(filtered_files) /\ year_files' = year_files
       ELSE pc' = "main_agg" /\ outcome' = outcome /\ year_files' = filtered_files
    /\ UNCHANGED <<fn, args, main_pc, http, response, response_content, parsed,
                   file_extensions, idx, filtered_files, list_of_df, fetched, calls>>

\* the logger.info call with min and max of the years, then the return
ListLog ==
    /\ pc = "list_filter"
    /\ "listing" \in DOMAIN response_content
    /\ idx = Len(response_content.listing)
    /\ IF LogStatementRaises(args.years)
       THEN Raise("ValueError") /\ UNCHANGED <<logs, year_files>>
       ELSE /\ logs' = Append(logs,
                    [fn |-> fn, msg |-> "years of data returned",
                     count |-> Len(filtered_files),
                     min |-> Min({int(args.years[i]) : i \in 1..Len(args.years)}),
                     max |-> Max({int(args.years[i]) : i \in 1..Len(args.years)})])
            /\ IF main_pc = "off"
               THEN pc' = "done" /\ outcome' = Returned(filtered_files)
                    /\ year_files' = year_files
               ELSE pc' = "main_agg" /\ outcome' = outcome
                    /\ year_files' = filtered_files
    /\ UNCHANGED <<fn, args, main_pc, http, response, response_content, parsed,
                   file_extensions, idx, filtered_files, list_of_df, fetched, calls>>

-----------------------------------------------------------------------------
(* prepare_cross_year_data *)

\* entry into prepare_cross_year_data: list_of_df = list()
AggStart(file_paths) ==
    /\ fn' = "prepare_cross_year_data"
    /\ args' = [file_paths |-> file_paths]
    /\ list_of_df' = <<>>
    /\ idx' = 0
    /\ pc' = "agg_load"

\* a direct call of prepare_cross_year_data
CallPrepareCrossYearData ==
    /\ pc = "ready"
    /\ \E file_paths \in FilePathsArgs : AggStart(file_paths)
    /\ UNCHANGED <<main_pc, http, response, response_content, parsed, file_extensions,
                   filtered_files, fetched, logs, year_files, calls, outcome>>

\* the loop iteration with a failed read skipped instead of propagated
AggLoad_SkipFailed ==
    /\ pc = "agg_load"
    /\ idx < Len(args.file_paths)
    /\ fetched' = Append(fetched, args.file_paths[idx + 1])
    /\ idx' = idx + 1
    /\ \E df \in Tables \cup {ReadFailure} :
          IF ~IsTable(df)
          THEN UNCHANGED <<logs, list_of_df>>
          ELSE /\ logs' = Append(logs, [fn |-> fn, msg |-> "Loading rows",
                                        rows |-> Len(df.rows),
                                        file_url |-> args.file_paths[idx + 1]])
               /\ list_of_df' = Append(list_of_df, df)
    /\ UNCHANGED <<pc, outcome, fn, args, main_pc, http, response, response_content,
                   parsed, file_extensions, filtered_files, year_files, calls>>

\* one iteration of  for file_url in file_paths: read_parquet, log, append
AggLoad ==
    /\ pc = "agg_load"
    /\ idx < Len(args.file_paths)
    /\ fetched' = Append(fetched, args.file_paths[idx + 1])
    /\ \E df \in Tables \cup {ReadFailure} :
          IF ~IsTable(df)
          THEN Raise(df.raised) /\ UNCHANGED <<logs, list_of_df, idx>>
          ELSE /\ logs' = Append(logs, [fn |-> fn, msg |-> "Loading rows",
                                        rows |-> Len(df.rows),
                                        file_url |-> args.file_paths[idx + 1]])
               /\ list_of_df' = Append(list_of_df, df)
               /\ idx' = idx + 1
               /\ UNCHANGED <<pc, outcome>>
    /\ UNCHANGED <<fn, args, main_pc, http, response, response_content, parsed,
                   file_extensions, filtered_files, year_files, calls>>

\* concat(list_of_df, ignore_index=True), the final log, the return
AggConcat ==
    /\ pc = "agg_load"
    /\ idx = Len(args.file_paths)
    /\ LET c == concat(list_of_df)
       IN  IF c.exc # ""
           THEN Raise(c.exc) /\ UNCHANGED <<logs, main_pc>>
           ELSE /\ logs' = Append(logs, [fn |-> fn, msg |-> "Final dataset prepared",
                                         rows |-> Len(c.frame.rows)])
                /\ pc' = "done"
                /\ outcome' = Returned(c.frame)
                /\ main_pc' = IF main_pc = "off" THEN "off" ELSE "exit"
    /\ UNCHANGED <<fn, args, http, response, response_content, parsed, file_extensions,
                   idx, filtered_files, list_of_df, fetched, year_files, calls>>

-----------------------------------------------------------------------------
(* The __main__ block *)

\* introduce_repository(branch=branch)
MainIntroduceRepository ==
    /\ pc = "ready"
    /\ main_pc' = "introduce_repository"
    /\ calls' = Append(calls, "introduce_repository")
    /\ \E r \in Transport : IntroRequest(main_branch, r)
    /\ UNCHANGED <<parsed, file_extensions, idx, filtered_files, list_of_df, fetched,
                   logs, year_files>>

\* year_files = get_file_path_array(years=range(start_year, end_year + 1, 1), branch=branch)
MainGetFilePathArray ==
    /\ pc = "main_list"
    /\ main_pc' = "get_file_path_array"
    /\ calls' = Append(calls, "get_file_path_array")
    /\ \E r \in Transport : ListRequest(main_years, main_branch, PyStr(S_parquet), r)
    /\ UNCHANGED <<parsed, file_extensions, idx, filtered_files, list_of_df, fetched,
                   logs, year_files>>

\* final_df = prepare_cross_year_data(file_paths=year_files)
MainPrepareCrossYearData ==
    /\ pc = "main_agg"
    /\ main_pc' = "prepare_cross_year_data"
    /\ calls' = Append(calls, "prepare_cross_year_data")
    /\ AggStart(year_files)
    /\ UNCHANGED <<http, response, response_content, parsed, file_extensions,
                   filtered_files, fetched, logs, year_files, outcome>>

Next ==
    \/ CallGenerateUrl
    \/ CallMakeCall
    \/ CallIntroduceRepository
    \/ IntroAssert
    \/ IntroParse
    \/ IntroLog
    \/ CallGetFilePathArray
    \/ ListAssert
    \/ ListParse
    \/ ListFilter
    \/ ListLog
    \/ CallPrepareCrossYearData
    \/ AggLoad
    \/ AggConcat
    \/ MainIntroduceRepository
    \/ MainGetFilePathArray
    \/ MainPrepareCrossYearData

Spec == Init /\ [][Next]_vars

-----------------------------------------------------------------------------
(* Properties *)

IsPrefix(s, t) == Len(s) <= Len(t) /\ s = SubSeq(t, 1, Len(s))

\* C1: make_call with both url and netloc absent raises ValueError, for every method
\* and every value of the other arguments, and issues no HTTP request.
C1_NoTargetIsValueError ==
    (fn = "make_call" /\ IsNone(args.url) /\ IsNone(args.netloc))
        => /\ pc = "done"
           /\ outcome = Raised("ValueError")
           /\ http = <<>>

C1_Witness ==
    /\ fn = "make_call"
    /\ IsNone(args.url) /\ IsNone(args.netloc)
    /\ args.method = "post" /\ IsList(args.path) /\ IsDict(args.query)
    /\ outcome = Raised("ValueError")

BranchesUrl_master == <<"h", "t", "t", "p", "s", ":", "/", "/", "a", "p", "i", ".", "g", "i", "t", "h", "u", "b", ".", "c", "o", "m", "/", "r", "e", "p", "o", "s", "/", "g", "u", "g", "a", "3", "1", "b", "b", "/", "n", "f", "l", "f", "a", "s", "t", "R", "-", "d", "a", "t", "a", "/", "b", "r", "a", "n", "c", "h", "e", "s", "/", "m", "a", "s", "t", "e", "r">>

ContentsUrl == <<"h", "t", "t", "p", "s", ":", "/", "/", "a", "p", "i", ".", "g", "i", "t", "h", "u", "b", ".", "c", "o", "m", "/", "r", "e", "p", "o", "s", "/", "g", "u", "g", "a", "3", "1", "b", "b", "/", "n", "f", "l", "f", "a", "s", "t", "R", "-", "d", "a", "t", "a", "/", "c", "o", "n", "t", "e", "n", "t", "s", "/", "d", "a", "t", "a">>

\* C2: the target of make_call's request is the url argument verbatim whenever url is
\* given, whatever the URL components are; with url absent and netloc given it is
\* generate_url of the same scheme, netloc, path, query and fragment.  For the two
\* helpers, which pass components only, that is the endpoint URL.
C2_TargetIsUrlElseGenerated ==
    /\ (fn = "make_call" /\ ~(IsNone(args.url) /\ IsNone(args.netloc)))
          => /\ Len(http) = 1
             /\ http[1].request.method = args.method
             /\ ~IsNone(args.url) => http[1].request.url = args.url.str
             /\ IsNone(args.url) =>
                   http[1].request.url =
                       generate_url(args.netloc, args.scheme, args.path, args.query,
                                    args.fragment)
    /\ (fn = "introduce_repository" /\ main_pc = "off" /\ args.branch = S_master)
          => Len(http) = 1 /\ http[1].request.url = BranchesUrl_master
    /\ (fn = "get_file_path_array" /\ main_pc = "off")
          => Len(http) = 1 /\ http[1].request.url = ContentsUrl

C2_Witness ==
    /\ fn = "make_call"
    /\ args.url = PyStr(S_https_x_io_f)
    /\ args.netloc = PyStr(S_api_github_com) /\ IsList(args.path) /\ IsDict(args.query)
    /\ Len(http) = 1 /\ http[1].request.url = S_https_x_io_f
    /\ outcome.kind = "returned"

\* the entries of listing that the filter of get_file_path_array is to keep: suffix
\* chain equal to the extension filter, and some year's string form in the name
C3_Expected(listing, years, extensions) ==
    LET filter == IF IsStr(extensions) THEN <<extensions.str>> ELSE extensions.list
        Keep(e) == /\ suffixes(e.name) = filter
                   /\ \E i \in 1..Len(years) : Contains(e.name, str(years[i]))
        kept == SelectSeq(listing, Keep)
    IN  [i \in 1..Len(kept) |-> kept[i].download_url]

\* a call of get_file_path_array whose listing request was answered 200 with a listing
\* and whose years are a non-empty collection of ints and numeric strings
C3_Case ==
    /\ fn = "get_file_path_array"
    /\ IsResponse(response) /\ response.status = 200
    /\ "listing" \in DOMAIN response.body
    /\ args.years # <<>>
    /\ \A i \in 1..Len(args.years) : IntOk(args.years[i])

\* C3: for a 200 listing response and non-empty years, get_file_path_array returns
\* exactly the download URLs of the entries whose suffix chain equals the extension
\* filter and whose name contains the string form of a requested year, in listing
\* order; a single-string file_extensions is the one-element filter.  In particular
\* years=[2020] over [pbp_2019.parquet, pbp_2020.parquet, readme_2020.md] gives the
\* one URL of pbp_2020.parquet.
C3_ReturnsFilteredInOrder ==
    /\ (C3_Case /\ pc = "done")
          => outcome = Returned(C3_Expected(response.body.listing, args.years,
                                            args.file_extensions))
    /\ (C3_Case /\ pc = "done" /\ args.years = <<PyInt(2020)>>
        /\ args.file_extensions = PyStr(S_parquet)
        /\ [i \in 1..Len(response.body.listing) |-> response.body.listing[i].name]
              = <<N_pbp_2019_parquet, N_pbp_2020_parquet, N_readme_2020_md>>)
          => outcome = Returned(<<"raw/pbp_2020.parquet">>)

C3_Witness ==
    /\ C3_Case /\ pc = "done"
    /\ args.years = <<PyInt(2020)>>
    /\ args.file_extensions = PyStr(S_parquet)
    /\ [i \in 1..Len(response.body.listing) |-> response.body.listing[i].name]
          = <<N_pbp_2019_parquet, N_pbp_2020_parquet, N_readme_2020_md>>
    /\ outcome = Returned(<<"raw/pbp_2020.parquet">>)

\* C4: a non-200 response is fatal to introduce_repository and get_file_path_array:
\* the call ends in AssertionError without parsing the body, without logging and
\* without returning anything.
C4_Non200IsFatal ==
    (/\ fn \in {"introduce_repository", "get_file_path_array"}
     /\ IsResponse(response) /\ response.status # 200
     /\ pc \notin {"intro_assert", "list_assert"})
        => /\ pc = "done"
           /\ outcome = Raised("AssertionError")
           /\ fn \notin Range(parsed)
           /\ response_content = None
           /\ \A i \in 1..Len(logs) : logs[i].fn # fn
           /\ year_files = <<>>

C4_Witness ==
    /\ fn = "get_file_path_array"
    /\ IsResponse(response) /\ response.status = 201
    /\ "listing" \in DOMAIN response.body
    /\ args.years = <<PyInt(2020)>>
    /\ outcome = Raised("AssertionError")

\* C5: get_file_path_array with an empty years collection never returns a list: it
\* fails, with ValueError from min() when the listing request was answered 200 with
\* a listing, whatever the listing holds; with non-empty years and no matching entry
\* it returns the empty list.
C5_EmptyYearsFails ==
    /\ (fn = "get_file_path_array" /\ args.years = <<>>)
          => /\ outcome.kind # "returned"
             /\ pc = "done" => outcome.kind = "raised"
             /\ (/\ pc = "done" /\ IsResponse(response) /\ response.status = 200
                 /\ "listing" \in DOMAIN response.body)
                   => /\ outcome = Raised("ValueError")
                      /\ idx = Len(response.body.listing)
    /\ (/\ C3_Case /\ pc = "done"
        /\ C3_Expected(response.body.listing, args.years, args.file_extensions) = <<>>)
          => outcome = Returned(<<>>)

C5_Witness ==
    /\ fn = "get_file_path_array" /\ args.years = <<>>
    /\ pc = "done" /\ IsResponse(response) /\ response.status = 200
    /\ "listing" \in DOMAIN response.body /\ Len(response.body.listing) = 2
    /\ outcome = Raised("ValueError")

\* every file of the call was loaded: read_parquet succeeded for each URL
AllLoaded ==
    /\ fn = "prepare_cross_year_data"
    /\ pc = "done"
    /\ Len(list_of_df) = Len(args.file_paths)

RECURSIVE RowsBefore(_, _)
\* the number of rows of the first i frames
RowsBefore(objs, i) == IF i = 0 THEN 0 ELSE RowsBefore(objs, i - 1) + Len(objs[i].rows)

\* frame holds the rows of objs, frame after frame and row after row, each with its
\* own cells
RowsInInputOrder(frame, objs) ==
    /\ Len(frame.rows) = RowsBefore(objs, Len(objs))
    /\ \A i \in 1..Len(objs) : \A k \in 1..Len(objs[i].rows) :
          \A c \in DOMAIN objs[i].rows[k] :
             frame.rows[RowsBefore(objs, i - 1) + k][c] = objs[i].rows[k][c]

\* C6: when every file loads, prepare_cross_year_data returns the rows of the
\* per-file tables concatenated in input-URL order: as many rows as the files hold
\* together, the rows of file i before those of file j for i < j.
C6_ReturnsRowsInInputOrder ==
    AllLoaded => /\ outcome.kind = "returned"
                 /\ RowsInInputOrder(outcome.value, list_of_df)

MismatchedColumns ==
    \E i, j \in 1..Len(list_of_df) :
        Range(list_of_df[i].columns) # Range(list_of_df[j].columns)

\* C7 as stated: given files whose column sets differ, prepare_cross_year_data fails
\* instead of returning a table.
C7_MismatchFails == (AllLoaded /\ MismatchedColumns) => outcome.kind = "raised"

\* C7 as amended: given files whose column sets differ, prepare_cross_year_data
\* returns a table whose columns are the union of the per-file columns, with the
\* rows in input order and NaN in the cells of the columns a file lacks.
C7_MismatchReturnsUnion ==
    (AllLoaded /\ MismatchedColumns)
        => /\ outcome.kind = "returned"
           /\ Range(outcome.value.columns)
                 = UNION {Range(list_of_df[i].columns) : i \in 1..Len(list_of_df)}
           /\ RowsInInputOrder(outcome.value, list_of_df)
           /\ \A i \in 1..Len(list_of_df) : \A k \in 1..Len(list_of_df[i].rows) :
                 LET row == outcome.value.rows[RowsBefore(list_of_df, i - 1) + k]
                 IN  /\ DOMAIN row = Range(outcome.value.columns)
                     /\ \A c \in DOMAIN row \ Range(list_of_df[i].columns) : row[c] = NaN

C7_Witness ==
    /\ AllLoaded
    /\ list_of_df = <<T_ab1, T_ac1>>
    /\ outcome.kind = "returned"
    /\ outcome.value.columns = <<"a", "b", "c">>
    /\ outcome.value.rows = <<[a |-> "a1", b |-> "b1", c |-> NaN],
                              [a |-> "a4", b |-> NaN, c |-> "c4"]>>

\* C8: prepare_cross_year_data fails as a whole when the fetch or parse of one URL
\* fails: the exception of that read ends the call, no table is returned, the file
\* is not skipped and no URL after it is fetched.
C8_FailedReadEndsTheCall ==
    fn = "prepare_cross_year_data"
        => /\ IsPrefix(fetched, args.file_paths)
           /\ Len(fetched) # Len(list_of_df)
                 => /\ pc = "done"
                    /\ outcome = Raised("read_parquet error")
                    /\ Len(fetched) = Len(list_of_df) + 1

C8_Witness ==
    /\ fn = "prepare_cross_year_data"
    /\ Len(args.file_paths) = 2
    /\ Len(fetched) = 1 /\ list_of_df = <<>>
    /\ outcome = Raised("read_parquet error")

S_https_api_github_com == <<"h", "t", "t", "p", "s", ":", "/", "/", "a", "p", "i", ".", "g", "i", "t", "h", "u", "b", ".", "c", "o", "m">>

\* the components of a generate_url call with every absent one given as ""
C9_Present(v) == IF IsNone(v) THEN PyStr(<<>>) ELSE v

\* C9: an absent path, query or fragment contributes the empty string to the URL
\* and never the text "None"; generate_url with only netloc given is
\* scheme + "://" + netloc.
C9_AbsentIsEmpty ==
    (fn = "generate_url" /\ pc = "done")
        => /\ outcome.value = generate_url(args.netloc, args.scheme, C9_Present(args.path),
                                           C9_Present(args.query), C9_Present(args.fragment))
           /\ ~Contains(outcome.value, <<"N", "o", "n", "e">>)
           /\ (/\ args.scheme = PyStr(S_https)
               /\ IsNone(args.path) /\ IsNone(args.query) /\ IsNone(args.fragment))
                 => outcome.value = S_https \o <<":", "/", "/">> \o args.netloc.str

C9_Witness ==
    /\ fn = "generate_url" /\ pc = "done"
    /\ args.netloc = PyStr(S_api_github_com) /\ args.scheme = PyStr(S_https)
    /\ IsNone(args.path) /\ IsNone(args.query) /\ IsNone(args.fragment)
    /\ outcome = Returned(S_https_api_github_com)

\* C10: in a run of the entry point the three operations occur in the order
\* introduce_repository, get_file_path_array, prepare_cross_year_data and a failure
\* stops the run; the listing is requested only after the branch metadata was
\* answered 200, a data file is fetched only after the listing was answered 200, the
\* files fetched are the URLs the listing step returned, in that order, and each
\* GitHub endpoint is requested at most once.
C10_MainRunsInOrder ==
    main_pc # "off"
        => /\ IsPrefix(calls, <<"introduce_repository", "get_file_path_array",
                                "prepare_cross_year_data">>)
           /\ Len(http) \in 1..2
           /\ http[1].request.url = BranchesUrl_master
           /\ Len(http) = 2
                 => /\ http[2].request.url = ContentsUrl
                    /\ IsResponse(http[1].response) /\ http[1].response.status = 200
           /\ Len(calls) >= 2 <=> Len(http) = 2
           /\ (fetched # <<>> \/ Len(calls) = 3)
                 => /\ Len(http) = 2
                    /\ IsResponse(http[2].response) /\ http[2].response.status = 200
                    /\ year_files = filtered_files
                    /\ year_files = C3_Expected(http[2].response.body.listing, main_years,
                                                PyStr(S_parquet))
           /\ IsPrefix(fetched, year_files)
           /\ (pc = "done" /\ outcome.kind = "returned")
                 => main_pc = "exit" /\ fetched = year_files /\ Len(calls) = 3
           /\ outcome.kind = "raised" => pc = "done" /\ ~ENABLED Next

C10_Witness ==
    /\ main_pc = "exit"
    /\ pc = "done"
    /\ calls = <<"introduce_repository", "get_file_path_array", "prepare_cross_year_data">>
    /\ fetched = <<"raw/pbp_2019.parquet", "raw/pbp_2020.parquet">>
    /\ outcome.kind = "returned"
    /\ Len(outcome.value.rows) = 3

=============================================================================
